---------------------------- MODULE Spec2Model ----------------------------
(***************************************************************************)
(* Model of src/auto_reboot_tool.py: AutoRebootTool, a supervisor that     *)
(* keeps one game-server child running, restarts it at daily schedule      *)
(* points and sends announcement commands ahead of each reboot.            *)
(*                                                                         *)
(* Time is in whole seconds since midnight of day 0.  A datetime is the    *)
(* number of seconds; timedelta arithmetic is integer arithmetic.          *)
(***************************************************************************)
EXTENDS Integers, Sequences, FiniteSets, TLC

(***************************************************************************)
(* Program constants.                                                      *)
(***************************************************************************)
SecondsPerMinute == 60
SecondsPerHour == 3600
SecondsPerDay == 86400
StartGrace == 3
RetryBackoff == 60
IdlePoll == 3600
ExitTimeout == 60
TerminateWait == 5
FaultBackoff == 60
StopExitTimeout == 30
JoinTimeout == 10

(***************************************************************************)
(* Bounds of the model.                                                    *)
(***************************************************************************)
MaxTicks == 6
MaxChildren == 2
MaxTimers == 3

None == -1

(***************************************************************************)
(* datetime helpers.                                                       *)
(***************************************************************************)
At(day, hour, minute, second) ==
    day * SecondsPerDay + hour * SecondsPerHour + minute * SecondsPerMinute + second

\* now.replace(hour=hour, minute=minute, second=0, microsecond=0)
Replace(now, hour, minute) ==
    (now \div SecondsPerDay) * SecondsPerDay
        + hour * SecondsPerHour + minute * SecondsPerMinute

\* (mutant) the enabled flag is not looked at
IsEnabledAlways(schedule) == TRUE

\* schedule.get("enabled", True): a missing key counts as enabled
IsEnabled(schedule) == schedule.enabled # "false"

\* (mutant) the latest instead of the earliest
SetMax(S) == CHOOSE x \in S : \A y \in S : x >= y

\* min(reboot_times)
SetMin(S) == CHOOSE x \in S : \A y \in S : x <= y

\* (mutant) an entry at exactly `now` is not moved to the next day
EntryRebootTimeNotAdvanced(now, schedule) ==
    LET reboot_time == Replace(now, schedule.hour, schedule.minute)
    IN  IF reboot_time < now THEN reboot_time + SecondsPerDay ELSE reboot_time

\* the reboot_time of one schedule entry (lines 217-223)
EntryRebootTime(now, schedule) ==
    LET reboot_time == Replace(now, schedule.hour, schedule.minute)
    IN  IF reboot_time <= now THEN reboot_time + SecondsPerDay ELSE reboot_time

\* get_next_reboot_time with datetime.now() = now
GetNextRebootTime(now, reboot_schedule) ==
    LET reboot_times ==
            { EntryRebootTime(now, reboot_schedule[i]) :
                i \in { j \in DOMAIN reboot_schedule : IsEnabled(reboot_schedule[j]) } }
    IN  IF reboot_times = {} THEN None ELSE SetMin(reboot_times)

(***************************************************************************)
(* Announcement rules.  A message template is a sequence of pieces; the    *)
(* pieces "{seconds}" and "{minutes}" are the placeholders.                *)
(***************************************************************************)
RECURSIVE Concat(_)
Concat(pieces) ==
    IF pieces = <<>> THEN "" ELSE Head(pieces) \o Concat(Tail(pieces))

Contains(template, piece) == \E i \in DOMAIN template : template[i] = piece

\* str.format(name=value) on a template whose only placeholder is `name`
Format(template, name, value) ==
    Concat([i \in DOMAIN template |->
              IF template[i] = name THEN ToString(value) ELSE template[i]])

HasSeconds(interval) == interval.seconds_before # None
HasMinutes(interval) == interval.minutes_before # None

\* get_seconds_before, the sort key of schedule_announcements
GetSecondsBefore(interval) ==
    IF HasSeconds(interval) THEN interval.seconds_before
    ELSE IF HasMinutes(interval) THEN interval.minutes_before * SecondsPerMinute
    ELSE 0

\* announcement_time of one interval (lines 252-262)
AnnouncementTime(reboot_time, interval) ==
    IF HasSeconds(interval) THEN reboot_time - interval.seconds_before
    ELSE reboot_time - interval.minutes_before * SecondsPerMinute

\* (mutant) the template is sent as it is written
MessageVerbatim(interval) == Concat(interval.message)

\* the rendered message of one interval (lines 255-267)
Message(interval) ==
    IF HasSeconds(interval)
    THEN IF Contains(interval.message, "{seconds}")
         THEN Format(interval.message, "{seconds}", interval.seconds_before)
         ELSE Concat(interval.message)
    ELSE IF Contains(interval.message, "{minutes}")
         THEN Format(interval.message, "{minutes}", interval.minutes_before)
         ELSE Concat(interval.message)

\* f'announcement "{message}"'
AnnouncementCommand(interval) == "announcement \"" \o Message(interval) \o "\""

\* (mutant) announcements whose time has passed are armed too
ArmedRulesAll(reboot_time, now, intervals) ==
    { i \in DOMAIN intervals : HasSeconds(intervals[i]) \/ HasMinutes(intervals[i]) }

\* the intervals schedule_announcements starts a Timer for, with
\* datetime.now() = now: valid intervals whose announcement_time > now
ArmedRules(reboot_time, now, intervals) ==
    { i \in DOMAIN intervals :
        /\ HasSeconds(intervals[i]) \/ HasMinutes(intervals[i])
        /\ AnnouncementTime(reboot_time, intervals[i]) > now }

\* sorted(..., key=get_seconds_before, reverse=True) is stable: interval i is
\* processed before interval j
Before(intervals, i, j) ==
    \/ GetSecondsBefore(intervals[i]) > GetSecondsBefore(intervals[j])
    \/ GetSecondsBefore(intervals[i]) = GetSecondsBefore(intervals[j]) /\ i < j

\* the intervals in the order of the sorted list
RECURSIVE SortedFrom(_, _)
SortedFrom(intervals, S) ==
    IF S = {} THEN <<>>
    ELSE LET first == CHOOSE i \in S : \A j \in S \ {i} : Before(intervals, i, j)
         IN  <<first>> \o SortedFrom(intervals, S \ {first})

Sorted(intervals) == SortedFrom(intervals, DOMAIN intervals)

(***************************************************************************)
(* State.                                                                  *)
(***************************************************************************)
VARIABLES
    now,             \* datetime.now(), the wall clock
    ticks,           \* how often the clock has advanced
    config,          \* self.config, loaded once by __init__
    running,         \* self.running
    server_process,  \* self.server_process: None or a child (Popen object)
    child,           \* the state of every child process
    thr,             \* the threads that run reboot_cycle
    reboot_thread,   \* self.reboot_thread: None or a thread
    mainT,           \* the main thread: run(), start(), stop()
    timers           \* the threading.Timer objects, in the order started

vars == <<now, ticks, config, running, server_process, child, thr,
          reboot_thread, mainT, timers>>

ThreadIds == {1, 2}
ChildIds == 1..MaxChildren

\* the frame of a send_command call that is not in progress
NoCall == [pc |-> "off", cmd |-> "", ret |-> "none", saw |-> None, wrote |-> None]

\* the frame on entry to send_command(cmd)
Call(cmd) == [NoCall EXCEPT !.pc = "read1", !.cmd = cmd]

InCall(f) == f.pc \notin {"off", "ret"}

Alive(c) == c # None /\ child[c] = "alive"

\* (mutant) send_command without the test for a missing child
SendStepUnchecked(f) ==
    CASE f.pc = "read1" -> [f EXCEPT !.pc = "read2", !.saw = server_process]
      [] f.pc = "read2" ->
            IF server_process = None
            THEN [f EXCEPT !.pc = "ret", !.ret = "raise"]
            ELSE [f EXCEPT !.pc = "write"]
      [] f.pc = "write" ->
            IF server_process = None
            THEN [f EXCEPT !.pc = "ret", !.ret = "false"]
            ELSE IF Alive(server_process)
            THEN [f EXCEPT !.pc = "flush", !.wrote = server_process]
            ELSE [f EXCEPT !.pc = "ret", !.ret = "false"]
      [] f.pc = "flush" ->
            IF server_process = None
            THEN [f EXCEPT !.pc = "ret", !.ret = "false"]
            ELSE [f EXCEPT !.pc = "ret", !.ret = "true"]

\* One step of send_command (lines 177-190).  Each evaluation of
\* self.server_process is a read of its own; p.stdin is never None, since
\* every child is started with stdin=PIPE.
\*   read1: `not self.server_process`             (line 179)
\*   read2: `self.server_process.stdin is None`   (line 179, outside the try)
\*   write: self.server_process.stdin.write(...)  (line 185, line buffered)
\*   flush: self.server_process.stdin.flush()     (line 186)
SendStep(f) ==
    CASE f.pc = "read1" ->
            IF server_process = None
            THEN [f EXCEPT !.pc = "ret", !.ret = "false", !.saw = None]
            ELSE [f EXCEPT !.pc = "read2", !.saw = server_process]
      [] f.pc = "read2" ->
            IF server_process = None
            THEN [f EXCEPT !.pc = "ret", !.ret = "raise"]
            ELSE [f EXCEPT !.pc = "write"]
      [] f.pc = "write" ->
            IF server_process = None
            THEN [f EXCEPT !.pc = "ret", !.ret = "false"]
            ELSE IF Alive(server_process)
            THEN [f EXCEPT !.pc = "flush", !.wrote = server_process]
            ELSE [f EXCEPT !.pc = "ret", !.ret = "false"]
      [] f.pc = "flush" ->
            IF server_process = None
            THEN [f EXCEPT !.pc = "ret", !.ret = "false"]
            ELSE [f EXCEPT !.pc = "ret", !.ret = "true"]

\* a thread that has not been created.  Besides its position and its local
\* variables a thread keeps a record of what it has done: the operations of
\* its stop sequence, when a start last failed, when an exception was last
\* caught, when it last computed a reboot time, and the reboot time of the
\* last stop sequence it began.
NoThread ==
    [pc |-> "none", next_reboot |-> None, wake |-> 0, waitOn |-> None,
     ops |-> <<>>, failedAt |-> None, caughtAt |-> None, computedAt |-> None,
     served |-> None, sc |-> NoCall]

\* The schedules and announcement rules the supervisor is run with.
Entry(h, m, e) == [hour |-> h, minute |-> m, enabled |-> e]
Seconds(s, msg) == [seconds_before |-> s, minutes_before |-> None, message |-> msg]
Minutes(m, msg) == [seconds_before |-> None, minutes_before |-> m, message |-> msg]
Invalid(msg) == [seconds_before |-> None, minutes_before |-> None, message |-> msg]

Rules ==
    << Seconds(5, <<"Reboot in ", "{seconds}", " seconds">>),
       Minutes(1, <<"Reboot in ", "{minutes}", " minutes">>),
       Invalid(<<"Reboot soon">>) >>

Configs ==
    { [reboot_schedule |-> <<Entry(4, 0, "true"), Entry(4, 1, "missing"),
                             Entry(3, 59, "false")>>,
       announcement_intervals |-> Rules,
       restart_delay_seconds |-> 2],
      [reboot_schedule |-> <<Entry(4, 0, "false")>>,
       announcement_intervals |-> Rules,
       restart_delay_seconds |-> 2] }

StartTime == At(0, 3, 59, 50)

Init ==
    /\ now = StartTime
    /\ ticks = 0
    /\ config \in Configs
    /\ running = FALSE
    /\ server_process = None
    /\ child = [c \in ChildIds |-> "unborn"]
    /\ thr = [t \in ThreadIds |-> NoThread]
    /\ reboot_thread = None
    /\ mainT = [pc |-> "run", wake |-> 0, waitOn |-> None, ops |-> <<>>, sc |-> NoCall]
    /\ timers = <<>>

(***************************************************************************)
(* reboot_cycle, run by thread t.  A sleeping thread holds in `wake` the   *)
(* instant its time.sleep returns at the earliest.                         *)
(***************************************************************************)
\* an entry of a thread's record of what it has done: what, with which
\* timeout or duration, and when
Op(name, arg) == <<name, arg, now>>

\* line 283: while self.running
LoopTest(t) ==
    /\ thr[t].pc = "loop"
    /\ thr' = [thr EXCEPT ![t].pc = IF running THEN "check_proc" ELSE "done",
                          ![t].ops = <<>>]
    /\ UNCHANGED <<now, ticks, config, running, server_process, child,
                   reboot_thread, mainT, timers>>

\* (mutant) the loop starts a child whatever it finds
CheckProcessBlind(t) ==
    /\ thr[t].pc = "check_proc"
    /\ thr' = [thr EXCEPT ![t].pc = "start_server"]
    /\ UNCHANGED <<now, ticks, config, running, server_process, child,
                   reboot_thread, mainT, timers>>

\* line 286: if not self.server_process or self.server_process.poll() is not None
CheckProcess(t) ==
    /\ thr[t].pc = "check_proc"
    /\ thr' = [thr EXCEPT ![t].pc = IF Alive(server_process) THEN "get_next"
                                    ELSE "start_server"]
    /\ UNCHANGED <<now, ticks, config, running, server_process, child,
                   reboot_thread, mainT, timers>>

\* lines 287-290 with start_server returning False before a child exists:
\* the executable is missing (lines 61-66) or Popen raises (lines 173-175).
\* reboot_cycle logs and sleeps 60.
StartServerFails(t) ==
    /\ thr[t].pc = "start_server"
    /\ thr' = [thr EXCEPT ![t].pc = "backoff", ![t].wake = now + RetryBackoff,
                          ![t].failedAt = now]
    /\ UNCHANGED <<now, ticks, config, running, server_process, child,
                   reboot_thread, mainT, timers>>

\* lines 98-133: Popen succeeds, self.server_process is the new child, and
\* start_server sleeps the grace period
StartServerSpawns(t) ==
    /\ thr[t].pc = "start_server"
    /\ \E c \in ChildIds :
         /\ child[c] = "unborn"
         /\ \A d \in ChildIds : d < c => child[d] # "unborn"
         /\ child' = [child EXCEPT ![c] = "alive"]
         /\ server_process' = c
    /\ thr' = [thr EXCEPT ![t].pc = "start_grace", ![t].wake = now + StartGrace,
                          ![t].failedAt = None]
    /\ UNCHANGED <<now, ticks, config, running, reboot_thread, mainT, timers>>

\* lines 136-172 and 287-290: after the grace period start_server polls the
\* child; if it has exited the start failed and reboot_cycle sleeps 60
StartServerPolls(t) ==
    /\ thr[t].pc = "start_grace"
    /\ now >= thr[t].wake
    /\ thr' = IF Alive(server_process)
              THEN [thr EXCEPT ![t].pc = "get_next"]
              ELSE [thr EXCEPT ![t].pc = "backoff", ![t].wake = now + RetryBackoff,
                               ![t].failedAt = now]
    /\ UNCHANGED <<now, ticks, config, running, server_process, child,
                   reboot_thread, mainT, timers>>

\* (mutant) after the sleep the loop goes on with the rest of the cycle
BackoffOverNoContinue(t) ==
    /\ thr[t].pc = "backoff"
    /\ now >= thr[t].wake
    /\ thr' = [thr EXCEPT ![t].pc = "get_next"]
    /\ UNCHANGED <<now, ticks, config, running, server_process, child,
                   reboot_thread, mainT, timers>>

\* lines 289-290: time.sleep(60) is over; continue
BackoffOver(t) ==
    /\ thr[t].pc = "backoff"
    /\ now >= thr[t].wake
    /\ thr' = [thr EXCEPT ![t].pc = "loop"]
    /\ UNCHANGED <<now, ticks, config, running, server_process, child,
                   reboot_thread, mainT, timers>>

\* lines 293-299: next_reboot = self.get_next_reboot_time(); without one the
\* loop sleeps an hour
GetNext(t) ==
    /\ thr[t].pc = "get_next"
    /\ LET next_reboot == GetNextRebootTime(now, config.reboot_schedule)
       IN  thr' = IF next_reboot = None
                  THEN [thr EXCEPT ![t].pc = "idle", ![t].wake = now + IdlePoll,
                                   ![t].next_reboot = None,
                                   ![t].computedAt = now]
                  ELSE [thr EXCEPT ![t].pc = "schedule",
                                   ![t].next_reboot = next_reboot,
                                   ![t].computedAt = now]
    /\ UNCHANGED <<now, ticks, config, running, server_process, child,
                   reboot_thread, mainT, timers>>

\* (mutant) the idle sleep returns at once
IdleOverEarly(t) ==
    /\ thr[t].pc = "idle"
    /\ thr' = [thr EXCEPT ![t].pc = "loop"]
    /\ UNCHANGED <<now, ticks, config, running, server_process, child,
                   reboot_thread, mainT, timers>>

\* lines 296-297: time.sleep(3600) is over; continue
IdleOver(t) ==
    /\ thr[t].pc = "idle"
    /\ now >= thr[t].wake
    /\ thr' = [thr EXCEPT ![t].pc = "loop"]
    /\ UNCHANGED <<now, ticks, config, running, server_process, child,
                   reboot_thread, mainT, timers>>

\* the Timer started for interval i of the configuration (line 276)
NewTimer(i, reboot_time) ==
    [rule |-> i,
     reboot |-> reboot_time,
     fireAt |-> AnnouncementTime(reboot_time, config.announcement_intervals[i]),
     armedAt |-> now,
     sc |-> [NoCall EXCEPT !.cmd = AnnouncementCommand(config.announcement_intervals[i])]]

\* the Timers of the first k intervals that schedule_announcements arms
NewTimers(reboot_time, k) ==
    LET intervals == config.announcement_intervals
        order == SelectSeq(Sorted(intervals),
                           LAMBDA i : i \in ArmedRules(reboot_time, now, intervals))
    IN  [n \in 1..k |-> NewTimer(order[n], reboot_time)]

NumArmed(reboot_time) ==
    Cardinality(ArmedRules(reboot_time, now, config.announcement_intervals))

\* lines 302-310: schedule_announcements(next_reboot) starts one Timer for
\* every interval whose announcement time is in the future; then the loop
\* sleeps until the reboot time (not at all if that is not in the future)
ScheduleAnnouncements(t) ==
    /\ thr[t].pc = "schedule"
    /\ Len(timers) + NumArmed(thr[t].next_reboot) <= MaxTimers
    /\ timers' = timers \o NewTimers(thr[t].next_reboot, NumArmed(thr[t].next_reboot))
    /\ thr' = [thr EXCEPT ![t].pc = "sleep_reboot",
                          ![t].wake = IF thr[t].next_reboot - now > 0
                                      THEN thr[t].next_reboot ELSE now]
    /\ UNCHANGED <<now, ticks, config, running, server_process, child,
                   reboot_thread, mainT>>

\* (mutant) the exception is not caught and ends the thread
ScheduleAnnouncementsDies(t) ==
    /\ thr[t].pc = "schedule"
    /\ NumArmed(thr[t].next_reboot) > 0
    /\ thr' = [thr EXCEPT ![t].pc = "done"]
    /\ UNCHANGED <<now, ticks, config, running, server_process, child,
                   reboot_thread, mainT, timers>>

\* line 276 raising (Timer.start() cannot start a thread) at the k+1st Timer:
\* the exception leaves the try block, line 339 catches it and sleeps 60
ScheduleAnnouncementsRaises(t) ==
    /\ thr[t].pc = "schedule"
    /\ \E k \in 0..(NumArmed(thr[t].next_reboot) - 1) :
         /\ Len(timers) + k <= MaxTimers
         /\ timers' = timers \o NewTimers(thr[t].next_reboot, k)
    /\ thr' = [thr EXCEPT ![t].pc = "fault", ![t].wake = now + FaultBackoff,
                          ![t].caughtAt = now]
    /\ UNCHANGED <<now, ticks, config, running, server_process, child,
                   reboot_thread, mainT>>

\* lines 339-341: time.sleep(60) of the exception handler is over
FaultOver(t) ==
    /\ thr[t].pc = "fault"
    /\ now >= thr[t].wake
    /\ thr' = [thr EXCEPT ![t].pc = "loop"]
    /\ UNCHANGED <<now, ticks, config, running, server_process, child,
                   reboot_thread, mainT, timers>>

\* lines 310-314: the sleep until the reboot time is over;
\* self.send_command("exit") is called
SendExit(t) ==
    /\ thr[t].pc = "sleep_reboot"
    /\ now >= thr[t].wake
    /\ thr' = [thr EXCEPT ![t].pc = "send_exit", ![t].sc = Call("exit"),
                          ![t].ops = Append(@, Op("exit", 0)),
                          ![t].served = thr[t].next_reboot]
    /\ UNCHANGED <<now, ticks, config, running, server_process, child,
                   reboot_thread, mainT, timers>>

\* a step of the send_command the loop has called
ThreadSend(t) ==
    /\ thr[t].pc = "send_exit"
    /\ InCall(thr[t].sc)
    /\ thr' = [thr EXCEPT ![t].sc = SendStep(@)]
    /\ UNCHANGED <<now, ticks, config, running, server_process, child,
                   reboot_thread, mainT, timers>>

\* line 317: wait_for_server_exit(timeout=60) (lines 192-206): returns at
\* once without a child, else waits for the child to exit or the timeout.
\* An AttributeError out of send_command is caught at line 339.
WaitForExit(t) ==
    /\ thr[t].pc = "send_exit"
    /\ thr[t].sc.pc = "ret"
    /\ thr' = IF thr[t].sc.ret = "raise"
              THEN [thr EXCEPT ![t].pc = "fault", ![t].wake = now + FaultBackoff,
                               ![t].caughtAt = now, ![t].sc = NoCall]
              ELSE IF server_process = None
              THEN [thr EXCEPT ![t].pc = "check_alive", ![t].sc = NoCall]
              ELSE [thr EXCEPT ![t].pc = "wait_exit", ![t].sc = NoCall,
                               ![t].waitOn = server_process,
                               ![t].wake = now + ExitTimeout,
                               ![t].ops = Append(@, Op("wait", ExitTimeout))]
    /\ UNCHANGED <<now, ticks, config, running, server_process, child,
                   reboot_thread, mainT, timers>>

\* (mutant) the wait for the exit of the child has no timeout
WaitOverNoTimeout(t) ==
    /\ thr[t].pc = "wait_exit"
    /\ ~Alive(thr[t].waitOn)
    /\ thr' = [thr EXCEPT ![t].pc = "check_alive", ![t].waitOn = None]
    /\ UNCHANGED <<now, ticks, config, running, server_process, child,
                   reboot_thread, mainT, timers>>

\* lines 198-203: the child has exited, or the timeout has expired
WaitOver(t) ==
    /\ thr[t].pc = "wait_exit"
    /\ ~Alive(thr[t].waitOn) \/ now >= thr[t].wake
    /\ thr' = [thr EXCEPT ![t].pc = "check_alive", ![t].waitOn = None]
    /\ UNCHANGED <<now, ticks, config, running, server_process, child,
                   reboot_thread, mainT, timers>>

\* lines 328-330: time.sleep(restart_delay) begins
RestartDelay(r) ==
    [r EXCEPT !.pc = "restart_delay", !.wake = now + config.restart_delay_seconds]

\* lines 320-323 and 328-330: a child that is still running is sent the
\* terminate request, which it obeys or ignores, and the loop sleeps 5;
\* otherwise the restart delay begins
TerminateIfAlive(t) ==
    /\ thr[t].pc = "check_alive"
    /\ IF Alive(server_process)
       THEN /\ \E s \in {"terminated", "alive"} :
                 child' = [child EXCEPT ![server_process] = s]
            /\ thr' = [thr EXCEPT ![t].pc = "term_sleep",
                                  ![t].wake = now + TerminateWait,
                                  ![t].ops = @ \o <<Op("terminate", 0),
                                                    Op("sleep", TerminateWait)>>]
       ELSE /\ thr' = [thr EXCEPT ![t] = RestartDelay(@)]
            /\ UNCHANGED child
    /\ UNCHANGED <<now, ticks, config, running, server_process,
                   reboot_thread, mainT, timers>>

\* (mutant) the kill does not wait for the 5 seconds
KillIfAliveAtOnce(t) ==
    /\ thr[t].pc = "term_sleep"
    /\ IF Alive(server_process)
       THEN /\ child' = [child EXCEPT ![server_process] = "killed"]
            /\ thr' = [thr EXCEPT ![t] = RestartDelay([@ EXCEPT !.ops =
                                                 Append(@, Op("kill", 0))])]
       ELSE /\ thr' = [thr EXCEPT ![t] = RestartDelay(@)]
            /\ UNCHANGED child
    /\ UNCHANGED <<now, ticks, config, running, server_process,
                   reboot_thread, mainT, timers>>

\* (mutant) a child that is still running after the 5 seconds is left alone
KillIfAliveSpares(t) ==
    /\ thr[t].pc = "term_sleep"
    /\ now >= thr[t].wake
    /\ thr' = [thr EXCEPT ![t] = RestartDelay(@)]
    /\ UNCHANGED <<now, ticks, config, running, server_process, child,
                   reboot_thread, mainT, timers>>

\* lines 324-330: after the 5 seconds a child that is still running is
\* killed; the restart delay begins
KillIfAlive(t) ==
    /\ thr[t].pc = "term_sleep"
    /\ now >= thr[t].wake
    /\ IF Alive(server_process)
       THEN /\ child' = [child EXCEPT ![server_process] = "killed"]
            /\ thr' = [thr EXCEPT ![t] = RestartDelay([@ EXCEPT !.ops =
                                                 Append(@, Op("kill", 0))])]
       ELSE /\ thr' = [thr EXCEPT ![t] = RestartDelay(@)]
            /\ UNCHANGED child
    /\ UNCHANGED <<now, ticks, config, running, server_process,
                   reboot_thread, mainT, timers>>

\* (mutant) the reference is cleared without waiting for the restart delay
ClearProcessEarly(t) ==
    /\ thr[t].pc = "restart_delay"
    /\ server_process' = None
    /\ thr' = [thr EXCEPT ![t].pc = "loop"]
    /\ UNCHANGED <<now, ticks, config, running, child, reboot_thread, mainT,
                   timers>>

\* lines 330-333: the restart delay is over; self.server_process = None
ClearProcess(t) ==
    /\ thr[t].pc = "restart_delay"
    /\ now >= thr[t].wake
    /\ server_process' = None
    /\ thr' = [thr EXCEPT ![t].pc = "loop"]
    /\ UNCHANGED <<now, ticks, config, running, child, reboot_thread, mainT,
                   timers>>

(***************************************************************************)
(* The child process and the Timer threads.                                *)
(***************************************************************************)
\* a running child exits by itself: it obeys an exit command, or crashes
ChildExits(c) ==
    /\ child[c] = "alive"
    /\ child' = [child EXCEPT ![c] = "exited"]
    /\ UNCHANGED <<now, ticks, config, running, server_process, thr,
                   reboot_thread, mainT, timers>>

\* threading.Timer: once its interval has passed, Timer n calls
\* self.send_command(f'announcement "{message}"')
TimerFires(n) ==
    /\ n \in DOMAIN timers
    /\ timers[n].sc.pc = "off"
    /\ now >= timers[n].fireAt
    /\ timers' = [timers EXCEPT ![n].sc.pc = "read1"]
    /\ UNCHANGED <<now, ticks, config, running, server_process, child, thr,
                   reboot_thread, mainT>>

\* a step of the send_command Timer n has called
TimerSend(n) ==
    /\ n \in DOMAIN timers
    /\ InCall(timers[n].sc)
    /\ timers' = [timers EXCEPT ![n].sc = SendStep(@)]
    /\ UNCHANGED <<now, ticks, config, running, server_process, child, thr,
                   reboot_thread, mainT>>

(***************************************************************************)
(* The main thread: main() calls run(), which calls start() and joins the  *)
(* loop thread; a KeyboardInterrupt makes run() call stop().               *)
(***************************************************************************)
\* start() (lines 343-352), called by run() (line 375), which then joins
Start ==
    /\ mainT.pc = "run"
    /\ IF running
       THEN UNCHANGED <<running, thr, reboot_thread>>
       ELSE /\ running' = TRUE
            /\ \E t \in ThreadIds :
                 /\ thr[t].pc = "none"
                 /\ \A u \in ThreadIds : u < t => thr[u].pc # "none"
                 /\ thr' = [thr EXCEPT ![t].pc = "loop"]
                 /\ reboot_thread' = t
    /\ mainT' = [mainT EXCEPT !.pc = "join"]
    /\ UNCHANGED <<now, ticks, config, server_process, child, timers>>

\* run(), lines 377-380: the join is interrupted and stop() is called;
\* stop() sets self.running = False (line 356)
Stop ==
    /\ mainT.pc = "join"
    /\ running' = FALSE
    /\ mainT' = [mainT EXCEPT !.pc = "stop_read1"]
    /\ UNCHANGED <<now, ticks, config, server_process, child, thr,
                   reboot_thread, timers>>

\* line 359, `self.server_process and ...`: the first read
StopRead1 ==
    /\ mainT.pc = "stop_read1"
    /\ mainT' = [mainT EXCEPT !.pc = IF server_process = None THEN "stop_join"
                                     ELSE "stop_read2"]
    /\ UNCHANGED <<now, ticks, config, running, server_process, child, thr,
                   reboot_thread, timers>>

\* lines 359-361, `self.server_process.poll() is None`: the second read; an
\* AttributeError leaves stop(); for a running child send_command("exit")
\* is called
StopRead2 ==
    /\ mainT.pc = "stop_read2"
    /\ mainT' = IF server_process = None THEN [mainT EXCEPT !.pc = "raised"]
                ELSE IF Alive(server_process)
                THEN [mainT EXCEPT !.pc = "stop_send", !.sc = Call("exit"),
                                   !.ops = Append(@, Op("exit", 0))]
                ELSE [mainT EXCEPT !.pc = "stop_join"]
    /\ UNCHANGED <<now, ticks, config, running, server_process, child, thr,
                   reboot_thread, timers>>

\* a step of the send_command stop() has called
MainSend ==
    /\ mainT.pc = "stop_send"
    /\ InCall(mainT.sc)
    /\ mainT' = [mainT EXCEPT !.sc = SendStep(@)]
    /\ UNCHANGED <<now, ticks, config, running, server_process, child, thr,
                   reboot_thread, timers>>

\* line 362: wait_for_server_exit(timeout=30)
StopWait ==
    /\ mainT.pc = "stop_send"
    /\ mainT.sc.pc = "ret"
    /\ mainT' = IF mainT.sc.ret = "raise"
                THEN [mainT EXCEPT !.pc = "raised", !.sc = NoCall]
                ELSE IF server_process = None
                THEN [mainT EXCEPT !.pc = "stop_check1", !.sc = NoCall]
                ELSE [mainT EXCEPT !.pc = "stop_wait", !.sc = NoCall,
                                   !.waitOn = server_process,
                                   !.wake = now + StopExitTimeout,
                                   !.ops = Append(@, Op("wait", StopExitTimeout))]
    /\ UNCHANGED <<now, ticks, config, running, server_process, child, thr,
                   reboot_thread, timers>>

\* lines 198-203: the child has exited, or the timeout has expired
StopWaitOver ==
    /\ mainT.pc = "stop_wait"
    /\ ~Alive(mainT.waitOn) \/ now >= mainT.wake
    /\ mainT' = [mainT EXCEPT !.pc = "stop_check1", !.waitOn = None]
    /\ UNCHANGED <<now, ticks, config, running, server_process, child, thr,
                   reboot_thread, timers>>

\* line 364, `self.server_process and ...`: the first read
StopCheck1 ==
    /\ mainT.pc = "stop_check1"
    /\ mainT' = [mainT EXCEPT !.pc = IF server_process = None THEN "stop_join"
                                     ELSE "stop_check2"]
    /\ UNCHANGED <<now, ticks, config, running, server_process, child, thr,
                   reboot_thread, timers>>

\* line 364, `self.server_process.poll() is None`: the second read
StopCheck2 ==
    /\ mainT.pc = "stop_check2"
    /\ mainT' = [mainT EXCEPT !.pc = IF server_process = None THEN "raised"
                                     ELSE IF Alive(server_process) THEN "stop_term"
                                     ELSE "stop_join"]
    /\ UNCHANGED <<now, ticks, config, running, server_process, child, thr,
                   reboot_thread, timers>>

\* line 365, self.server_process.terminate(): the third read; a running
\* child obeys the terminate request or ignores it
StopTerminate ==
    /\ mainT.pc = "stop_term"
    /\ IF server_process = None
       THEN /\ mainT' = [mainT EXCEPT !.pc = "raised"]
            /\ UNCHANGED child
       ELSE /\ mainT' = [mainT EXCEPT !.pc = "stop_join",
                                      !.ops = Append(@, Op("terminate", 0))]
            /\ IF Alive(server_process)
               THEN \E s \in {"terminated", "alive"} :
                        child' = [child EXCEPT ![server_process] = s]
               ELSE UNCHANGED child
    /\ UNCHANGED <<now, ticks, config, running, server_process, thr,
                   reboot_thread, timers>>

\* lines 367-368: self.reboot_thread.join(timeout=10)
StopJoin ==
    /\ mainT.pc = "stop_join"
    /\ mainT' = IF reboot_thread = None
                THEN [mainT EXCEPT !.pc = "stopped"]
                ELSE [mainT EXCEPT !.pc = "stop_joining",
                                   !.wake = now + JoinTimeout,
                                   !.ops = Append(@, Op("join", JoinTimeout))]
    /\ UNCHANGED <<now, ticks, config, running, server_process, child, thr,
                   reboot_thread, timers>>

\* lines 368-370: the loop thread has ended, or the join has timed out;
\* stop() returns
StopReturns ==
    /\ mainT.pc = "stop_joining"
    /\ thr[reboot_thread].pc = "done" \/ now >= mainT.wake
    /\ mainT' = [mainT EXCEPT !.pc = "stopped"]
    /\ UNCHANGED <<now, ticks, config, running, server_process, child, thr,
                   reboot_thread, timers>>

(***************************************************************************)
(* The clock.  Only sleeps and waits take time: the clock stands still     *)
(* while a thread is between two of them, and then advances to the next    *)
(* instant at which a sleep, a wait or a Timer ends.  A sleeping thread, a *)
(* waiting thread and a Timer may each run late: any time after that       *)
(* instant.                                                                *)
(***************************************************************************)
Sleeping == {"start_grace", "backoff", "idle", "sleep_reboot", "wait_exit",
             "term_sleep", "restart_delay", "fault"}

Deadlines ==
    { thr[t].wake : t \in { u \in ThreadIds : thr[u].pc \in Sleeping } }
    \cup (IF mainT.pc \in {"stop_wait", "stop_joining"} THEN {mainT.wake} ELSE {})
    \cup { timers[n].fireAt : n \in { m \in DOMAIN timers : timers[m].sc.pc = "off" } }

\* every thread is in a sleep or a wait, has ended, or has not begun
AllBlocked ==
    /\ \A t \in ThreadIds : thr[t].pc \in Sleeping \cup {"none", "done"}
    /\ mainT.pc \in {"join", "stop_wait", "stop_joining", "stopped", "raised"}
    /\ \A n \in DOMAIN timers : ~InCall(timers[n].sc)

Tick ==
    /\ ticks < MaxTicks
    /\ AllBlocked
    /\ \E d \in Deadlines :
         /\ d > now
         /\ \A e \in Deadlines : e > now => d <= e
         /\ now' = d
    /\ ticks' = ticks + 1
    /\ UNCHANGED <<config, running, server_process, child, thr, reboot_thread,
                   mainT, timers>>

ThreadNext(t) ==
    \/ LoopTest(t)
    \/ CheckProcess(t)
    \/ StartServerFails(t)
    \/ StartServerSpawns(t)
    \/ StartServerPolls(t)
    \/ BackoffOver(t)
    \/ GetNext(t)
    \/ IdleOver(t)
    \/ ScheduleAnnouncements(t)
    \/ ScheduleAnnouncementsRaises(t)
    \/ FaultOver(t)
    \/ SendExit(t)
    \/ ThreadSend(t)
    \/ WaitForExit(t)
    \/ WaitOver(t)
    \/ TerminateIfAlive(t)
    \/ KillIfAlive(t)
    \/ ClearProcess(t)

MainNext ==
    \/ Start
    \/ Stop
    \/ StopRead1
    \/ StopRead2
    \/ MainSend
    \/ StopWait
    \/ StopWaitOver
    \/ StopCheck1
    \/ StopCheck2
    \/ StopTerminate
    \/ StopJoin
    \/ StopReturns

Next ==
    \/ \E t \in ThreadIds : ThreadNext(t)
    \/ MainNext
    \/ \E c \in ChildIds : ChildExits(c)
    \/ \E n \in 1..MaxTimers : TimerFires(n)
    \/ \E n \in 1..MaxTimers : TimerSend(n)
    \/ Tick

Spec == Init /\ [][Next]_vars

(***************************************************************************)
(* The class used through its methods: after stop() has returned, start()  *)
(* is called once more.                                                    *)
(***************************************************************************)
\* start() (lines 343-352) called after stop() has returned
StartAgain ==
    /\ mainT.pc = "stopped"
    /\ IF running
       THEN UNCHANGED <<running, thr, reboot_thread>>
       ELSE /\ running' = TRUE
            /\ \E t \in ThreadIds :
                 /\ thr[t].pc = "none"
                 /\ \A u \in ThreadIds : u < t => thr[u].pc # "none"
                 /\ thr' = [thr EXCEPT ![t].pc = "loop"]
                 /\ reboot_thread' = t
    /\ mainT' = [mainT EXCEPT !.pc = "join", !.ops = <<>>]
    /\ UNCHANGED <<now, ticks, config, server_process, child, timers>>

\* the supervisor is run with a schedule without an enabled entry, so that
\* the loop threads only start and check the child and sleep; Popen always
\* succeeds, and a child runs until it is terminated
ApiInit ==
    /\ Init
    /\ \A i \in DOMAIN config.reboot_schedule : ~IsEnabled(config.reboot_schedule[i])

ApiThreadNext(t) ==
    \/ LoopTest(t)
    \/ CheckProcess(t)
    \/ StartServerSpawns(t)
    \/ StartServerPolls(t)
    \/ BackoffOver(t)
    \/ GetNext(t)
    \/ IdleOver(t)

ApiNext ==
    \/ \E t \in ThreadIds : ApiThreadNext(t)
    \/ MainNext
    \/ StartAgain
    \/ Tick

SpecApi == ApiInit /\ [][ApiNext]_vars

(***************************************************************************)
(* The loop on its own, from the moment it first computes a reboot time:   *)
(* the supervisor was started shortly before 04:00 with a schedule that    *)
(* has enabled entries, its first child is running, and no stop is         *)
(* requested.                                                              *)
(***************************************************************************)
CycleStartTime == At(0, 3, 59, 58)

CycleInit ==
    /\ now = CycleStartTime
    /\ ticks = 0
    /\ config \in Configs
    /\ \E i \in DOMAIN config.reboot_schedule : IsEnabled(config.reboot_schedule[i])
    /\ running = TRUE
    /\ server_process = 1
    /\ child = [c \in ChildIds |-> IF c = 1 THEN "alive" ELSE "unborn"]
    /\ thr = [t \in ThreadIds |->
                IF t = 1 THEN [NoThread EXCEPT !.pc = "get_next"] ELSE NoThread]
    /\ reboot_thread = 1
    /\ mainT = [pc |-> "join", wake |-> 0, waitOn |-> None, ops |-> <<>>, sc |-> NoCall]
    /\ timers = <<>>

CycleThreadNext ==
    \/ LoopTest(1)
    \/ CheckProcess(1)
    \/ StartServerFails(1)
    \/ StartServerSpawns(1)
    \/ StartServerPolls(1)
    \/ BackoffOver(1)
    \/ GetNext(1)
    \/ ScheduleAnnouncements(1)
    \/ ScheduleAnnouncementsRaises(1)
    \/ FaultOver(1)
    \/ SendExit(1)
    \/ ThreadSend(1)
    \/ WaitForExit(1)
    \/ WaitOver(1)
    \/ TerminateIfAlive(1)
    \/ KillIfAlive(1)
    \/ ClearProcess(1)

CycleTimerSend == \E n \in 1..MaxTimers : TimerSend(n)

CycleNext ==
    \/ CycleThreadNext
    \/ \E c \in ChildIds : ChildExits(c)
    \/ \E n \in 1..MaxTimers : TimerFires(n)
    \/ CycleTimerSend
    \/ Tick

SpecCycle == CycleInit /\ [][CycleNext]_vars

\* The operating system runs every thread that can run, and time passes.
SpecCycleFair ==
    /\ SpecCycle
    /\ WF_vars(CycleThreadNext)
    /\ WF_vars(CycleTimerSend)
    /\ WF_vars(Tick)

(***************************************************************************)
(* get_next_reboot_time and schedule_announcements on their own: the loop  *)
(* thread is about to compute the next reboot time, at any of a set of     *)
(* instants and with any of a set of configurations.                       *)
(***************************************************************************)
ScheduleNows ==
    { At(0, h, m, sec) : h \in {0, 3, 4, 10, 16, 23}, m \in {0, 1, 59},
                         sec \in {0, 1, 59} }

Schedules ==
    { <<>>,
      <<Entry(4, 0, "true")>>,
      <<Entry(4, 0, "true"), Entry(16, 0, "true")>>,
      <<Entry(4, 0, "false"), Entry(16, 0, "missing")>>,
      <<Entry(4, 0, "false"), Entry(16, 1, "false")>>,
      <<Entry(0, 0, "true"), Entry(23, 59, "true"), Entry(10, 0, "false")>>,
      <<Entry(10, 1, "missing"), Entry(10, 1, "true"), Entry(3, 59, "true")>> }

RuleSets ==
    { Rules,
      << Minutes(10, <<"Reboot in ", "{minutes}", " minutes">>),
         Seconds(0, <<"Rebooting now">>),
         Seconds(30, <<"{seconds}", "s left">>) >> }

ScheduleConfigs ==
    { [reboot_schedule |-> s, announcement_intervals |-> r,
       restart_delay_seconds |-> 2] : s \in Schedules, r \in RuleSets }

ScheduleInit ==
    /\ now \in ScheduleNows
    /\ ticks = 0
    /\ config \in ScheduleConfigs
    /\ running = TRUE
    /\ server_process = 1
    /\ child = [c \in ChildIds |-> IF c = 1 THEN "alive" ELSE "unborn"]
    /\ thr = [t \in ThreadIds |->
                IF t = 1 THEN [NoThread EXCEPT !.pc = "get_next"] ELSE NoThread]
    /\ reboot_thread = 1
    /\ mainT = [pc |-> "join", wake |-> 0, waitOn |-> None, ops |-> <<>>, sc |-> NoCall]
    /\ timers = <<>>

ScheduleNext ==
    \/ GetNext(1)
    \/ ScheduleAnnouncements(1)

SpecSchedule == ScheduleInit /\ [][ScheduleNext]_vars

(***************************************************************************)
(* Properties.                                                             *)
(***************************************************************************)
\* the name and the argument of every entry of a record of operations
Shape(ops) == [i \in DOMAIN ops |-> <<ops[i][1], ops[i][2]>>]

Escalation ==
    << <<"exit", 0>>, <<"wait", 60>>, <<"terminate", 0>>, <<"sleep", 5>>,
       <<"kill", 0>> >>

\* C1: when the stop sequence of a cycle is over (the restart delay has
\* begun) and its child was still running at every check, so that it had to
\* be killed, the loop has issued, in this order and once each: the exit
\* command, a wait of 60 for the exit, the terminate request not before the
\* 60 were over, a sleep of 5, and the kill not before the 5 were over.
\* Whatever the child does, the operations issued are an initial part of
\* that sequence.
C1_StopEscalation ==
    \A t \in ThreadIds :
        thr[t].pc = "restart_delay" =>
            LET ops == thr[t].ops
            IN  /\ Shape(ops) \in { SubSeq(Escalation, 1, 2),
                                    SubSeq(Escalation, 1, 4), Escalation }
                /\ Len(ops) >= 3 => ops[3][3] >= ops[1][3] + 60
                /\ Len(ops) = 5 => ops[5][3] >= ops[3][3] + 5
                /\ child[server_process] = "killed" => Len(ops) = 5

\* a stop sequence has ended with the kill of the child
C1_Witness ==
    /\ thr[1].pc = "restart_delay"
    /\ child[server_process] = "killed"
    /\ Len(thr[1].ops) = 5

\* the schedule has an entry that is not disabled
HasEnabled ==
    \E i \in DOMAIN config.reboot_schedule :
        config.reboot_schedule[i].enabled # "false"

\* the thread has computed the next reboot time (the clock of SpecSchedule
\* stands still, so `now` is the instant of the computation)
Computed(t) == thr[t].pc \in {"schedule", "idle", "sleep_reboot"}

\* C2: with at least one enabled entry, the reboot time computed at `now`
\* is an instant strictly after `now`.
C2_NextRebootAfterNow ==
    \A t \in ThreadIds :
        Computed(t) /\ HasEnabled =>
            thr[t].next_reboot # None /\ thr[t].next_reboot > now

\* the schedule has an entry at exactly the time of day of `now`, and the
\* result is the same time on the next day
C2_Witness ==
    /\ thr[1].pc = "schedule"
    /\ now = At(0, 4, 0, 0)
    /\ config.reboot_schedule = <<Entry(4, 0, "true")>>
    /\ thr[1].next_reboot = At(1, 4, 0, 0)

\* the next occurrence of an entry's time of day: today at hour:minute:00
\* if that is strictly after n, the same time tomorrow otherwise
Occurrence(n, e) ==
    LET today == (n - (n % 86400)) + 3600 * e.hour + 60 * e.minute
    IN  IF today > n THEN today ELSE today + 86400

\* C3: the computed reboot time is the next occurrence of an enabled entry
\* and is no later than the next occurrence of any enabled entry; entry
\* 04:00 at 04:00:01 gives 04:00:00 of the next day, and entries 04:00 and
\* 16:00 at 10:00 give 16:00 of the same day.
C3_MinimumOfNextOccurrences ==
    \A t \in ThreadIds :
        Computed(t) /\ HasEnabled =>
            LET enabled == { i \in DOMAIN config.reboot_schedule :
                               config.reboot_schedule[i].enabled # "false" }
                result == thr[t].next_reboot
            IN  /\ \E i \in enabled :
                       result = Occurrence(now, config.reboot_schedule[i])
                /\ \A i \in enabled :
                       result <= Occurrence(now, config.reboot_schedule[i])
                /\ (now = At(0, 4, 0, 1)
                      /\ config.reboot_schedule = <<Entry(4, 0, "true")>>)
                   => result = At(1, 4, 0, 0)
                /\ (now = At(0, 10, 0, 0)
                      /\ config.reboot_schedule =
                           <<Entry(4, 0, "true"), Entry(16, 0, "true")>>)
                   => result = At(0, 16, 0, 0)

\* entries 04:00 and 16:00 at 10:00: the result is 16:00 of the same day
C3_Witness ==
    /\ thr[1].pc = "schedule"
    /\ now = At(0, 10, 0, 0)
    /\ config.reboot_schedule = <<Entry(4, 0, "true"), Entry(16, 0, "true")>>
    /\ thr[1].next_reboot = At(0, 16, 0, 0)

\* the send_command frames of all threads
Frames ==
    { thr[t].sc : t \in ThreadIds } \cup {mainT.sc}
        \cup { timers[n].sc : n \in DOMAIN timers }

\* C4: a send_command that finds no child handle at its first read returns
\* False, has written nothing and has not raised.
C4_AbsentHandleFails ==
    \A f \in Frames :
        f.pc = "ret" /\ f.saw = None => f.ret = "false" /\ f.wrote = None

\* a Timer has called send_command without a child handle
C4_Witness ==
    \E n \in DOMAIN timers :
        /\ timers[n].sc.pc = "ret"
        /\ timers[n].sc.saw = None
        /\ timers[n].sc.ret = "false"

\* C5: no send_command called by a Timer raises an exception, however the
\* loop thread clears or replaces the child handle meanwhile.
C5_TimerSendNeverRaises ==
    \A n \in DOMAIN timers : timers[n].sc.ret # "raise"

\* C6: from a failed start_server until the next start_server spawns a
\* child, the loop thread is in the sleep of 60 that began at the failure,
\* or, that sleep being over, on its way from the loop test to the next
\* start_server (or out of the loop, if a stop was requested); it is
\* nowhere near computing a reboot time, arming announcements or sending a
\* command.
C6_FailedStartBacksOffAndRetries ==
    \A t \in ThreadIds :
        thr[t].failedAt # None =>
            /\ thr[t].pc \in {"backoff", "loop", "check_proc", "start_server", "done"}
            /\ thr[t].pc = "backoff" => thr[t].wake = thr[t].failedAt + 60
            /\ thr[t].pc # "backoff" => now >= thr[t].failedAt + 60
            /\ thr[t].pc = "done" => ~running
            /\ thr[t].sc.pc = "off"
            /\ \A n \in DOMAIN timers : timers[n].armedAt < thr[t].failedAt

\* after a failed start and the sleep of 60, start_server is tried again
C6_Witness ==
    /\ thr[1].failedAt # None
    /\ thr[1].pc = "start_server"
    /\ now >= thr[1].failedAt + 60

\* C7: the loop thread ends only at a loop test that finds running false;
\* an exception raised inside the loop body puts the thread into a sleep of
\* 60, after which it is at the loop test again.
C7_LoopEndsOnlyOnStop ==
    [][\A t \in ThreadIds :
          /\ (thr[t].pc # "done" /\ thr'[t].pc = "done")
                => (thr[t].pc = "loop" /\ ~running)
          /\ (thr[t].pc # "fault" /\ thr'[t].pc = "fault")
                => thr'[t].wake = now + 60
          /\ (thr[t].pc = "fault" /\ thr'[t].pc # "fault")
                => (thr'[t].pc = "loop" /\ now >= thr[t].wake)]_vars

\* an exception has been caught and, 60 later, the thread is back at the
\* loop test with running still true
C7_Witness ==
    /\ thr[1].pc = "check_proc"
    /\ running
    /\ thr[1].caughtAt # None
    /\ now >= thr[1].caughtAt + 60

\* C8: when stop() has returned after finding a running child, it has sent
\* the exit command, waited up to 60, and, where the child was still
\* running, sent the terminate request, slept 5 and killed a child that
\* was running even then; then it has joined the loop thread with a
\* timeout; the child is no longer running.
C8_StopEscalatesLikeTheLoop ==
    (mainT.pc = "stopped" /\ Len(mainT.ops) > 0 /\ mainT.ops[1][1] = "exit") =>
        LET ops == mainT.ops
            tiers == SubSeq(ops, 1, Len(ops) - 1)
        IN  /\ ops[Len(ops)][1] = "join"
            /\ Shape(tiers) \in { SubSeq(Escalation, 1, 2),
                                  SubSeq(Escalation, 1, 4), Escalation }
            /\ \A c \in ChildIds : child[c] = "alive" => server_process # c

\* C9: no Timer exists whose announcement time was not in the future when
\* it was armed: an announcement whose time has come or passed at planning
\* is never armed, so it is never sent, at no later planning either.
C9_MissedAnnouncementNeverArmed ==
    \A n \in DOMAIN timers :
        /\ timers[n].fireAt > timers[n].armedAt
        /\ timers[n].fireAt =
             AnnouncementTime(timers[n].reboot,
                              config.announcement_intervals[timers[n].rule])

\* a planning has armed one interval and dropped another, whose
\* announcement time had passed
C9_Witness ==
    \E n \in DOMAIN timers :
        \E i \in DOMAIN config.announcement_intervals :
            /\ HasMinutes(config.announcement_intervals[i])
            /\ timers[n].reboot - 60 * config.announcement_intervals[i].minutes_before
                 <= timers[n].armedAt
            /\ \A m \in DOMAIN timers :
                   ~(timers[m].rule = i /\ timers[m].reboot = timers[n].reboot)

\* C10: without an enabled entry (an empty schedule, or all entries
\* disabled) no reboot time is computed: the result is None and the loop
\* goes to its idle sleep.
C10_NoEnabledEntryGivesNone ==
    \A t \in ThreadIds :
        Computed(t) /\ ~HasEnabled =>
            thr[t].next_reboot = None /\ thr[t].pc = "idle"

\* a schedule whose entries are all disabled has given None
C10_Witness ==
    /\ thr[1].pc = "idle"
    /\ thr[1].next_reboot = None
    /\ Len(config.reboot_schedule) = 2

\* a template with the value written in place of every piece that is the
\* placeholder
RECURSIVE Rendered(_, _, _)
Rendered(template, placeholder, value) ==
    IF template = <<>> THEN ""
    ELSE (IF Head(template) = placeholder THEN ToString(value) ELSE Head(template))
             \o Rendered(Tail(template), placeholder, value)

\* C11: every armed Timer fires at the reboot time minus the offset of its
\* rule, taken in the unit the rule declares, and sends the command
\* announcement "<message>", the message being the template with the
\* offset's value in place of the placeholder of that unit; the rule
\* minutes_before 10 with "Reboot in {minutes} minutes" fires 600 seconds
\* before the reboot time and sends announcement "Reboot in 10 minutes".
C11_AnnouncementTimeAndText ==
    \A n \in DOMAIN timers :
        LET rule == config.announcement_intervals[timers[n].rule]
            T == timers[n].reboot
        IN  /\ rule.seconds_before # None =>
                  /\ timers[n].fireAt = T - rule.seconds_before
                  /\ timers[n].sc.cmd =
                       "announcement \"" \o Rendered(rule.message, "{seconds}",
                                                     rule.seconds_before) \o "\""
            /\ rule.seconds_before = None =>
                  /\ rule.minutes_before # None
                  /\ timers[n].fireAt = T - 60 * rule.minutes_before
                  /\ timers[n].sc.cmd =
                       "announcement \"" \o Rendered(rule.message, "{minutes}",
                                                     rule.minutes_before) \o "\""
            /\ rule = Minutes(10, <<"Reboot in ", "{minutes}", " minutes">>) =>
                  /\ timers[n].fireAt = T - 600
                  /\ timers[n].sc.cmd = "announcement \"Reboot in 10 minutes\""

\* the Timer of the rule minutes_before 10 is armed, and so is one whose
\* template has no placeholder
C11_Witness ==
    /\ \E n \in DOMAIN timers :
           /\ timers[n].sc.cmd = "announcement \"Reboot in 10 minutes\""
           /\ timers[n].fireAt = timers[n].reboot - 600
    /\ \E n \in DOMAIN timers :
           timers[n].sc.cmd = "announcement \"Rebooting now\""

\* C12: while the loop thread is in the restart delay, that is, once the
\* stop sequence of its cycle is over, the child of the cycle is not
\* running, whatever the child did with the exit command and the terminate
\* request and whether or not the exit command could be written to it.
C12_ChildDeadAfterStopSequence ==
    \A t \in ThreadIds :
        thr[t].pc = "restart_delay" =>
            /\ server_process # None
            /\ child[server_process] \in {"exited", "terminated", "killed"}

\* a stop sequence is over whose child ignored the exit command and obeyed
\* the terminate request
C12_Witness ==
    /\ thr[1].pc = "restart_delay"
    /\ child[server_process] = "terminated"
    /\ Len(thr[1].ops) = 4
    /\ mainT.pc = "join"

\* C13: no step leaves two children running; a loop thread enters
\* start_server only when no child is attached or the attached child has
\* exited; and a step that clears the child reference clears the reference
\* of a child that is no longer running.
C13_AtMostOneChildAlive ==
    [][/\ Cardinality({ c \in ChildIds : child'[c] = "alive" }) <= 1
       /\ \A t \in ThreadIds :
             (thr[t].pc # "start_server" /\ thr'[t].pc = "start_server") =>
                 (server_process = None \/ child[server_process] # "alive")
       /\ (server_process # None /\ server_process' = None) =>
             child[server_process] # "alive"]_vars

\* after a whole cycle the second child is running and the first is not
C13_Witness ==
    /\ child[2] = "alive"
    /\ child[1] \in {"exited", "terminated", "killed"}
    /\ server_process = 2
    /\ thr[1].next_reboot # None

\* C14: within a cycle the loop thread calls send_command("exit") only when
\* the computed reboot time has come; it begins the restart delay only out
\* of the end of the stop sequence, the exit command having been issued at
\* or after the reboot time, and the delay is restart_delay_seconds long;
\* it leaves the restart delay only when the delay is over, and by clearing
\* the child reference and going back to the loop test, from where alone
\* start_server is entered, never while a sleep is pending.
C14_CycleOrder ==
    [][\A t \in ThreadIds :
          /\ (thr[t].pc = "sleep_reboot" /\ thr'[t].pc = "send_exit")
                => now >= thr[t].next_reboot
          /\ (thr[t].pc # "restart_delay" /\ thr'[t].pc = "restart_delay")
                => /\ thr[t].pc \in {"check_alive", "term_sleep"}
                   /\ Len(thr[t].ops) >= 1
                   /\ thr[t].ops[1][1] = "exit"
                   /\ thr[t].ops[1][3] >= thr[t].next_reboot
                   /\ thr'[t].wake = now + config.restart_delay_seconds
          /\ (thr[t].pc = "restart_delay" /\ thr'[t].pc # "restart_delay")
                => /\ now >= thr[t].wake
                   /\ thr'[t].pc = "loop"
                   /\ server_process' = None
          /\ (thr[t].pc # "start_server" /\ thr'[t].pc = "start_server")
                => /\ thr[t].pc = "check_proc"
                   /\ now >= thr[t].wake]_vars

\* a cycle is over: the reference is cleared and start_server is entered,
\* the reboot time and the restart delay having passed
C14_Witness ==
    /\ thr[1].pc = "start_server"
    /\ server_process = None
    /\ thr[1].next_reboot # None
    /\ now >= thr[1].next_reboot + config.restart_delay_seconds

\* C15: with a schedule without an enabled entry, every step leaves the
\* loop thread among the steps that start and check the child and the idle
\* sleep: a check that finds no running child leads to start_server, one
\* that finds a running child to the computation of the reboot time and
\* from there to a sleep of 3600, which the thread leaves only when it is
\* over and for the loop test; no Timer is ever armed, the loop thread
\* sends no command and issues no operation of the stop sequence, no child
\* is killed, and a running child is terminated by stop() alone.
C15_IdleWithoutSchedule ==
    [][~HasEnabled =>
         /\ timers' = <<>>
         /\ \A c \in ChildIds :
               /\ child'[c] # "killed"
               /\ (child[c] = "alive" /\ child'[c] = "terminated")
                     => mainT.pc = "stop_term"
         /\ \A t \in ThreadIds :
               /\ thr'[t].pc \in {"none", "loop", "check_proc", "start_server",
                                  "start_grace", "backoff", "get_next", "idle",
                                  "done"}
               /\ thr'[t].ops = <<>>
               /\ thr'[t].sc = NoCall
               /\ (thr[t].pc = "check_proc" /\ thr'[t].pc # "check_proc")
                     => thr'[t].pc = IF server_process # None
                                        /\ child[server_process] = "alive"
                                     THEN "get_next" ELSE "start_server"
               /\ (thr[t].pc = "get_next" /\ thr'[t].pc # "get_next")
                     => (thr'[t].pc = "idle" /\ thr'[t].wake = now + 3600)
               /\ (thr[t].pc = "idle" /\ thr'[t].pc # "idle")
                     => (thr'[t].pc = "loop" /\ now >= thr[t].wake)]_vars

\* without an enabled entry the loop has slept its hour and checks the
\* child again
C15_Witness ==
    /\ ~HasEnabled
    /\ running
    /\ thr[1].pc = "check_proc"
    /\ now >= StartTime + 3600

\* C16: at most one thread is executing reboot_cycle, whatever start() and
\* stop() calls have been made.
C16_AtMostOneLoopThread ==
    Cardinality({ t \in ThreadIds : thr[t].pc \notin {"none", "done"} }) <= 1

C18_NoInstantSkipped ==
    \A t \in ThreadIds :
        (/\ thr[t].pc \in {"schedule", "sleep_reboot"}
         /\ thr[t].served # None
         /\ thr[t].computedAt >= thr[t].served) =>
            \A i \in DOMAIN config.reboot_schedule :
                config.reboot_schedule[i].enabled # "false" =>
                    Occurrence(thr[t].served, config.reboot_schedule[i])
                        > thr[t].computedAt

\* C19: once stop() has returned, no child that the supervisor started is
\* running.
C19_NoChildAfterStop ==
    mainT.pc = "stopped" => \A c \in ChildIds : child[c] # "alive"

\* C20: for every reboot time every announcement rule is armed at most
\* once: no two Timers exist for the same rule and the same reboot time,
\* whatever retries the loop has made.
C20_ArmedOncePerRebootTime ==
    \A n, m \in DOMAIN timers :
        (timers[n].rule = timers[m].rule /\ timers[n].reboot = timers[m].reboot)
            => n = m

=============================================================================
